---- MODULE Spec2Model ----
(***************************************************************************)
(* Metaheuristics for the travelling salesman problem (src/ls/tsp_ls.py    *)
(* and src/ls/tsp_lsplus.py): tour evaluation, the three neighbourhood     *)
(* operators, the local-search driver, tabu search, simulated annealing    *)
(* and the genetic algorithm.                                              *)
(*                                                                         *)
(* Conventions.  A tour is a TLA+ sequence of node identifiers 0..n-1.     *)
(* Python positions are 0-based; At and Slice take Python positions.       *)
(* Costs are integers counted in thousandths, so the threshold 0.001 of    *)
(* the source is Eps = 1 and costs that differ by less than the threshold, *)
(* by exactly the threshold and by more all occur.                         *)
(***************************************************************************)
EXTENDS Integers, Sequences, FiniteSets, TLC

VARIABLES graph, ev, ls, ts, sa, ga, session

vars == <<graph, ev, ls, ts, sa, ga, session>>

\* ------------------------------------------------------------------ bounds

\* Graphs have 2..MaxNodes nodes and seeds 0..MaxSeed; edge costs are below
\* CostRange.  The trace of local_search is cut off at MaxTrace tours.
MaxNodes == 4
MaxSeed == 3
CostRange == 7
MaxTrace == 6

\* __evaluate_solution is also called with lists of up to MaxSequence
\* entries that need not be tours.
MaxSequence == 4

\* tabu_search is called with max_iterations in 0..MaxIterations and
\* tabu_length in 0..MaxTabuLength.
MaxIterations == 5
MaxTabuLength == 3

\* simulated_annealing is called with a temperature of 0, 0.1, ...,
\* MaxTemperature tenths.
MaxTemperature == 3

\* genetic_algorithm is called with population_size in 0..MaxPopulation and
\* generations in 0..MaxGenerations, on graphs of 2..MaxGeneticNodes nodes.
MaxPopulation == 6
MaxGeneticNodes == 3
MaxGenerations == 2

\* and also with a population_size of ElitePopulation.
ElitePopulation == 10

\* The generator of the module random has GeneratorModulus states.  A session
\* calls local_search up to MaxRuns times, and other code draws from the
\* generator up to MaxOtherDraws times in between.
GeneratorModulus == 8
MaxRuns == 2
MaxOtherDraws == 2

\* The improvement threshold, 0.001, in thousandths.
Eps == 1

\* ------------------------------------------------------- Python sequences

\* s[i] for a Python position 0 <= i < len(s); s[-1] is At(s, Len(s) - 1).
At(s, i) == s[i + 1]

\* s[a:b] for Python positions 0 <= a, b <= len(s).
Slice(s, a, b) == SubSeq(s, a + 1, b)

\* s[::-1]
Reversed(s) == [k \in 1..Len(s) |-> s[Len(s) + 1 - k]]

\* range(lo, hi) as a sequence
Range(lo, hi) == [k \in 1..(IF hi > lo THEN hi - lo ELSE 0) |-> lo + k - 1]

\* The set of elements of a sequence.
Elems(s) == {s[k] : k \in 1..Len(s)}

\* x in s, for a list s
InList(x, s) == \E k \in 1..Len(s) : s[k] = x

\* itertools.product(range(lo,hi), repeat=2) in its lexicographic order.
AllPairs(lo, hi) ==
  LET m == IF hi > lo THEN hi - lo ELSE 0
  IN  [k \in 1..(m * m) |-> <<lo + ((k - 1) \div m), lo + ((k - 1) % m)>>]

\* itertools.permutations(range(lo,hi), 2): ordered pairs i # j, lexicographic.
permutations2(lo, hi) == SelectSeq(AllPairs(lo, hi), LAMBDA p : p[1] # p[2])

\* itertools.combinations(range(lo,hi), 2): pairs i < j, lexicographic.
combinations2(lo, hi) == SelectSeq(AllPairs(lo, hi), LAMBDA p : p[1] < p[2])

\* The permutations of the nodes 0..n-1, as sequences.
Perms(n) ==
  {s \in [1..n -> 0..(n - 1)] : \A a, b \in 1..n : a # b => s[a] # s[b]}

\* A tour of n nodes: every node appears exactly once.
IsTour(s, n) ==
  /\ Len(s) = n
  /\ \A u \in 0..(n - 1) : Cardinality({k \in 1..Len(s) : s[k] = u}) = 1

\* ---------------------------------------------------------------- graphs

\* The cost attribute of the edges of a complete directed graph on 0..n-1
\* (there is no edge (u,u)).  The instance provider is outside the engine:
\* any total table over the ordered pairs of distinct nodes is an input.  The
\* tables enumerated here depend on a seed, as in random_euclidean_graph; an
\* even seed gives a symmetric table, an odd seed an asymmetric one.
CostHash(seed, u, v) ==
  ((seed + 1) * (u + 1) * (u + 1)
     + (seed + 2) * (v + 1) * (v + 1) * (v + 1)
     + u * v * (seed + u)) % CostRange

EdgeCost(seed, u, v) ==
  IF seed % 2 = 0
  THEN CostHash(seed, IF u < v THEN u ELSE v, IF u < v THEN v ELSE u)
  ELSE CostHash(seed, u, v)

CompleteGraph(n, seed) ==
  [n    |-> n,
   cost |-> [e \in {p \in (0..(n - 1)) \X (0..(n - 1)) : p[1] # p[2]}
               |-> EdgeCost(seed, e[1], e[2])]]

Graphs == {CompleteGraph(n, seed) : n \in 2..MaxNodes, seed \in 0..MaxSeed}

\* The graph random_euclidean_graph builds from the coordinates (0,0), (0,1),
\* (1,1), (1,0) of nodes 0..3, costs in thousandths: math.dist is 1 along a
\* side of the square and the square root of 2 along a diagonal.
UnitSquare ==
  [n    |-> 4,
   cost |-> [e \in {p \in (0..3) \X (0..3) : p[1] # p[2]}
               |-> IF (e[1] + e[2]) % 2 = 1 THEN 1000 ELSE 1414]]

\* list(graph.nodes): the nodes in insertion order
NodeList(g) == Range(0, g.n)

\* ------------------------------------------------------------ evaluation

\* Variants of __edgelist with a slip: the closing edge left out, and the
\* closing edge entered from the wrong end.
edgelist_open(nodes) ==
  [k \in 1..(Len(nodes) - 1) |-> <<nodes[k], nodes[k + 1]>>]

edgelist_closing_reversed(nodes) ==
  [k \in 1..(Len(nodes) - 1) |-> <<nodes[k], nodes[k + 1]>>]
    \o << <<At(nodes, 0), At(nodes, Len(nodes) - 1)>> >>

\* __edgelist
edgelist(nodes) ==
  [k \in 1..(Len(nodes) - 1) |-> <<nodes[k], nodes[k + 1]>>]
    \o << <<At(nodes, Len(nodes) - 1), At(nodes, 0)>> >>

\* sum( graph.edges[edge]['cost'] for edge in edges ), over the first k edges
RECURSIVE SumCost(_, _, _)
SumCost(g, edges, k) ==
  IF k = 0 THEN 0
  ELSE g.cost[edges[k]] + SumCost(g, edges, k - 1)

\* __evaluate_solution
evaluate_solution(g, solution) ==
  CHOOSE total \in {SumCost(g, edges, Len(edges)) :
                      edges \in {edgelist(solution)}} : TRUE

\* --------------------------------------------- neighbourhood operators

\* relocate the node at position i to position j (tsp_ls.py 180-181)
relocate_move(solution, i, j) ==
  LET removed == Slice(solution, 0, i) \o Slice(solution, i + 1, Len(solution))
  IN  Slice(removed, 0, j) \o <<At(solution, i)>> \o Slice(removed, j, Len(removed))

\* exchange the nodes at positions i and j (tsp_ls.py 221-223)
swap_move(solution, i, j) ==
  [solution EXCEPT ![i + 1] = At(solution, j), ![j + 1] = At(solution, i)]

\* reverse the segment solution[i:j] (tsp_ls.py 258)
two_opt_move(solution, i, j) ==
  Slice(solution, 0, i) \o Reversed(Slice(solution, i, j))
    \o Slice(solution, j, Len(solution))

\* A variant of the relocation loop that only moves nodes to later positions.
relocation_candidates_forward(solution) ==
  CHOOSE cands \in
    {[k \in 1..Len(pairs) |-> relocate_move(solution, pairs[k][1], pairs[k][2])] :
       pairs \in {combinations2(1, Len(solution))}} : TRUE

\* The working solutions in the order the loops meet them.
relocation_candidates(solution) ==
  CHOOSE cands \in
    {[k \in 1..Len(pairs) |-> relocate_move(solution, pairs[k][1], pairs[k][2])] :
       pairs \in {permutations2(1, Len(solution))}} : TRUE

swap_candidates(solution) ==
  CHOOSE cands \in
    {[k \in 1..Len(pairs) |-> swap_move(solution, pairs[k][1], pairs[k][2])] :
       pairs \in {combinations2(1, Len(solution))}} : TRUE

\* A variant of the 2-opt loop that leaves position 0 out, as the other two
\* loops do.
two_opt_candidates_from_1(solution) ==
  CHOOSE cands \in
    {[k \in 1..Len(pairs) |-> two_opt_move(solution, pairs[k][1], pairs[k][2])] :
       pairs \in {combinations2(1, Len(solution))}} : TRUE

two_opt_candidates(solution) ==
  CHOOSE cands \in
    {[k \in 1..Len(pairs) |-> two_opt_move(solution, pairs[k][1], pairs[k][2])] :
       pairs \in {combinations2(0, Len(solution))}} : TRUE

\* Variants of the test with a slip: the comparison turned around, and the
\* threshold on the wrong side.
improves_reversed(working_cost, best_cost) == best_cost + Eps < working_cost

improves_minus_eps(working_cost, best_cost) == working_cost - Eps < best_cost

\* Another: the test without the threshold, and not strict.
improves_or_equal(working_cost, best_cost) == working_cost <= best_cost

\* And the test without the threshold.
improves_without_threshold(working_cost, best_cost) == working_cost < best_cost

\* the test "working_cost + 0.001 < best_cost"
improves(working_cost, best_cost) == working_cost + Eps < best_cost

\* The body of the three operators' loops, from the k-th working solution on:
\* the best solution so far is replaced whenever the working solution improves
\* on it by more than Eps.  (The set of one element binds the new triple as a
\* value before the loop goes on.)
RECURSIVE best_improvement(_, _, _, _)
best_improvement(g, cands, k, acc) ==
  IF k > Len(cands) THEN acc
  ELSE CHOOSE result \in
         {best_improvement(g, cands, k + 1,
            IF improves(working_cost, acc.best_cost)
            THEN [best_solution |-> working_solution,
                  best_cost     |-> working_cost,
                  improved      |-> TRUE]
            ELSE acc) :
              working_solution \in {cands[k]},
              working_cost \in {evaluate_solution(g, cands[k])}} : TRUE

\* best_solution, best_cost, improved before the loop
initial_best(g, solution) ==
  [best_solution |-> solution,
   best_cost     |-> evaluate_solution(g, solution),
   improved      |-> FALSE]

improve_by_node_relocations(g, solution) ==
  CHOOSE result \in
    {best_improvement(g, cands, 1, acc) :
       cands \in {relocation_candidates(solution)},
       acc \in {initial_best(g, solution)}} : TRUE

improve_by_node_swaps(g, solution) ==
  CHOOSE result \in
    {best_improvement(g, cands, 1, acc) :
       cands \in {swap_candidates(solution)},
       acc \in {initial_best(g, solution)}} : TRUE

improve_by_2_opt(g, solution) ==
  CHOOSE result \in
    {best_improvement(g, cands, 1, acc) :
       cands \in {two_opt_candidates(solution)},
       acc \in {initial_best(g, solution)}} : TRUE

\* The operator called in the loop of local_search: relocate in the source
\* as it stands, swap or 2-opt with the alternative line enabled.
Operators == {"relocate", "swap", "2-opt"}

improve(op, g, solution) ==
  CASE op = "relocate" -> improve_by_node_relocations(g, solution)
    [] op = "swap"     -> improve_by_node_swaps(g, solution)
    [] op = "2-opt"    -> improve_by_2_opt(g, solution)

\* ------------------------------------------------- controllers at rest

\* A controller that is not the one called, and the graph before a call.
Off == [pc |-> "off"]

NoGraph == [n |-> 0, cost |-> <<>>]

\* Nothing has been called yet.
Init ==
  /\ graph = NoGraph
  /\ ev = Off /\ ls = Off /\ ts = Off /\ sa = Off /\ ga = Off
  /\ session = Off

Idle ==
  /\ ev = Off /\ ls = Off /\ ts = Off /\ sa = Off /\ ga = Off
  /\ session = Off

\* ------------------------------------------------------ evaluation calls

\* solution[r:] + solution[:r]: the same cycle started at position r
Rotation(solution, r) ==
  Slice(solution, r, Len(solution)) \o Slice(solution, 0, r)

\* A caller holds a tour and one of its rotations and evaluates both.
EVStart ==
  /\ Idle
  /\ graph' \in Graphs
  /\ \E solution \in Perms(graph'.n), r \in 0..(graph'.n - 1) :
       ev' = [pc |-> "call", solution |-> solution,
              rotated |-> Rotation(solution, r)]
  /\ UNCHANGED <<ls, ts, sa, ga, session>>

EvaluateTour ==
  /\ ev.pc = "call"
  /\ ev' = [pc |-> "evaluated", solution |-> ev.solution, rotated |-> ev.rotated,
            cost |-> evaluate_solution(graph, ev.solution)]
  /\ UNCHANGED <<graph, ls, ts, sa, ga, session>>

EvaluateRotation ==
  /\ ev.pc = "evaluated"
  /\ ev' = [pc |-> "done", solution |-> ev.solution, rotated |-> ev.rotated,
            cost |-> ev.cost,
            rotated_cost |-> evaluate_solution(graph, ev.rotated)]
  /\ UNCHANGED <<graph, ls, ts, sa, ga, session>>

\* Any list of integers can be passed to __evaluate_solution: the entries
\* enumerated are the nodes and one integer, graph.n, that is not a node.
Sequences(n) ==
  UNION {[1..len -> 0..n] : len \in 0..MaxSequence}

\* What a call of __evaluate_solution ends in.  __edgelist reads nodes[-1],
\* which raises IndexError on the empty list; graph.edges[edge] raises
\* KeyError for a pair that is not an edge of the graph, and the sum is
\* then abandoned; otherwise the sum is returned.
evaluate_call(g, solution) ==
  IF solution = <<>> THEN [raised |-> "IndexError"]
  ELSE IF \E k \in 1..Len(edgelist(solution)) :
            edgelist(solution)[k] \notin DOMAIN g.cost
  THEN [raised |-> "KeyError"]
  ELSE [raised |-> "nothing", cost |-> evaluate_solution(g, solution)]

\* A caller holds a list that need not be a tour.
EVStartSequence ==
  /\ Idle
  /\ graph' \in Graphs
  /\ \E solution \in Sequences(graph'.n) :
       ev' = [pc |-> "call_sequence", solution |-> solution]
  /\ UNCHANGED <<ls, ts, sa, ga, session>>

\* The call returns the sum.
EvaluateSequence ==
  /\ ev.pc = "call_sequence"
  /\ \E outcome \in {evaluate_call(graph, ev.solution)} :
       /\ outcome.raised = "nothing"
       /\ ev' = [pc |-> "returned", solution |-> ev.solution,
                 cost |-> outcome.cost]
  /\ UNCHANGED <<graph, ls, ts, sa, ga, session>>

\* The call raises an exception.
EvaluateSequenceError ==
  /\ ev.pc = "call_sequence"
  /\ \E outcome \in {evaluate_call(graph, ev.solution)} :
       /\ outcome.raised # "nothing"
       /\ ev' = [pc |-> outcome.raised, solution |-> ev.solution]
  /\ UNCHANGED <<graph, ls, ts, sa, ga, session>>

NextEV ==
  \/ EVStart \/ EvaluateTour \/ EvaluateRotation
  \/ EVStartSequence \/ EvaluateSequence \/ EvaluateSequenceError

SpecEV == Init /\ [][NextEV]_vars

\* The cyclic sum written out over the positions of the tour.
RECURSIVE PositionSum(_, _, _)
PositionSum(g, tour, i) ==
  IF i < 1 THEN 0
  ELSE g.cost[<<At(tour, i - 1), At(tour, i)>>] + PositionSum(g, tour, i - 1)

CyclicSum(g, tour) ==
  PositionSum(g, tour, Len(tour) - 1)
    + g.cost[<<At(tour, Len(tour) - 1), At(tour, 0)>>]

Asymmetric(g) == \E e \in DOMAIN g.cost : g.cost[e] # g.cost[<<e[2], e[1]>>]

\* C8: evaluating a permutation of the nodes gives the sum of the costs of
\* the edges between consecutive positions plus the cost of the edge from the
\* last position back to the first, and leaves the tour and the cost table
\* as they were.
C8_EvaluateIsCyclicSum ==
  [][EvaluateTour =>
       /\ ev'.cost = CyclicSum(graph, ev.solution)
       /\ ev'.solution = ev.solution
       /\ graph' = graph]_vars

C8_Witness ==
  /\ ev.pc = "evaluated"
  /\ graph.n >= 3
  /\ Asymmetric(graph)
  /\ ev.cost > 0

\* C9: a tour and each of its rotations evaluate to the same cost, for
\* symmetric and asymmetric cost tables alike.
C9_RotationInvariant ==
  ev.pc = "done" => ev.rotated_cost = ev.cost

C9_Witness ==
  /\ ev.pc = "done"
  /\ graph.n >= 3
  /\ Asymmetric(graph)
  /\ ev.rotated # ev.solution

\* ----------------------------------------------------------- local_search

\* Lines 291-298: the list of the nodes is shuffled and recorded in the trace.
LSStart ==
  /\ Idle
  /\ graph' \in Graphs \cup {UnitSquare}
  /\ \E op \in Operators, solution \in Perms(graph'.n) :
       ls' = [pc |-> "improving", op |-> op, solution |-> solution,
              solutions |-> <<solution>>]
  /\ UNCHANGED <<ev, ts, sa, ga, session>>

\* One pass of the loop in which the operator reports an improvement.
LSAccept ==
  /\ ls.pc = "improving"
  /\ Len(ls.solutions) < MaxTrace
  /\ LET r == improve(ls.op, graph, ls.solution)
     IN  /\ r.improved
         /\ ls' = [ls EXCEPT !.solution = r.best_solution,
                             !.solutions = Append(@, r.best_solution)]
  /\ UNCHANGED <<graph, ev, ts, sa, ga, session>>

\* The pass in which it reports none: break, and return solution.
LSBreak ==
  /\ ls.pc = "improving"
  /\ LET r == improve(ls.op, graph, ls.solution)
     IN  /\ ~r.improved
         /\ ls' = [ls EXCEPT !.pc = "terminal", !.solution = r.best_solution]
  /\ UNCHANGED <<graph, ev, ts, sa, ga, session>>

NextLS == LSStart \/ LSAccept \/ LSBreak

SpecLS == Init /\ [][NextLS]_vars

\* The loop is a sequential program: it takes its next pass while it can.
FairSpecLS == SpecLS /\ WF_vars(NextLS)

\* C1: the costs of the tours in the trace of local_search, the initial tour
\* first and then each accepted candidate, never increase along the trace.
C1_TraceCostsNonIncreasing ==
  ls.pc # "off" =>
    \A k \in 1..(Len(ls.solutions) - 1) :
      evaluate_solution(graph, ls.solutions[k + 1])
        <= evaluate_solution(graph, ls.solutions[k])

C1_Witness ==
  /\ ls.pc # "off"
  /\ Len(ls.solutions) >= 3

\* C2: whatever the initial tour and the operator, the loop of local_search
\* reaches the pass in which the operator reports no improvement and exits.
C2_Terminates == <>(ls.pc = "terminal")

C2_Witness ==
  /\ ls.pc = "terminal"
  /\ Len(ls.solutions) >= 3

\* The tours one move of the operator away, as a set.
Neighbourhood(op, solution) ==
  LET n == Len(solution)
  IN  CASE op = "relocate" ->
             {relocate_move(solution, i, j) :
                <<i, j>> \in {p \in (1..(n - 1)) \X (1..(n - 1)) : p[1] # p[2]}}
        [] op = "swap" ->
             {swap_move(solution, i, j) :
                <<i, j>> \in {p \in (1..(n - 1)) \X (1..(n - 1)) : p[1] < p[2]}}
        [] op = "2-opt" ->
             {two_opt_move(solution, i, j) :
                <<i, j>> \in {p \in (0..(n - 1)) \X (0..(n - 1)) : p[1] < p[2]}}

\* C3: when the loop has ended, the tour returned is the last tour of the
\* trace, and no tour the operator enumerates from it costs less than it by
\* more than the threshold.
C3_ReturnsLocalOptimum ==
  ls.pc = "terminal" =>
    /\ ls.solution = ls.solutions[Len(ls.solutions)]
    /\ \A c \in Neighbourhood(ls.op, ls.solution) :
         ~(evaluate_solution(graph, c) + Eps < evaluate_solution(graph, ls.solution))

C3_Witness ==
  /\ ls.pc = "terminal"
  /\ Len(ls.solutions) >= 2
  /\ \E c \in Neighbourhood(ls.op, ls.solution) :
       evaluate_solution(graph, c) < evaluate_solution(graph, ls.solution)

\* ------------------------------------------------------------ tabu_search

\* Variants with a slip: the pair looked up the wrong way round, and the
\* test for a new best turned around.
is_tabu_transposed(i, j, tabu_list) == InList(<<j, i>>, tabu_list)

improves_global_reversed(best_neighbor_cost, best_global_cost) ==
  best_global_cost + Eps < best_neighbor_cost

\* (i,j) in tabu_list
is_tabu(i, j, tabu_list) == InList(<<i, j>>, tabu_list)

\* lines 49-50: the neighbour with the nodes at positions i and j exchanged
neighbor_swap(curr_solution, i, j) ==
  [curr_solution EXCEPT ![j + 1] = At(curr_solution, i),
                        ![i + 1] = At(curr_solution, j)]

\* lines 39-41: best_neighbor = None, best_neighbor_cost = inf, best_swap = None
\* (none says that the three still hold these values)
NoNeighbor ==
  [none |-> TRUE, best_neighbor |-> <<>>, best_neighbor_cost |-> 0,
   best_swap |-> <<>>]

\* line 55: neighbor_cost + 0.001 < best_neighbor_cost, which is inf at first
improves_neighbor(neighbor_cost, best) ==
  best.none \/ neighbor_cost + Eps < best.best_neighbor_cost

\* line 74: best_neighbor_cost + 0.001 < best_global_cost
improves_global(best_neighbor_cost, best_global_cost) ==
  best_neighbor_cost + Eps < best_global_cost

\* lines 43-58, from the k-th pair on: the pairs in the tabu list are skipped,
\* the best of the other neighbours is kept.
RECURSIVE best_neighbor_search(_, _, _, _, _, _)
best_neighbor_search(g, curr_solution, tabu_list, pairs, k, best) ==
  IF k > Len(pairs) THEN best
  ELSE IF is_tabu(pairs[k][1], pairs[k][2], tabu_list)
  THEN best_neighbor_search(g, curr_solution, tabu_list, pairs, k + 1, best)
  ELSE CHOOSE result \in
         {best_neighbor_search(g, curr_solution, tabu_list, pairs, k + 1,
            IF improves_neighbor(neighbor_cost, best)
            THEN [none |-> FALSE, best_neighbor |-> neighbor_solution,
                  best_neighbor_cost |-> neighbor_cost, best_swap |-> pairs[k]]
            ELSE best) :
              neighbor_solution \in
                {neighbor_swap(curr_solution, pairs[k][1], pairs[k][2])},
              neighbor_cost \in
                {evaluate_solution(g,
                   neighbor_swap(curr_solution, pairs[k][1], pairs[k][2]))}} : TRUE

\* A variant with a slip: the search of one iteration without the look into
\* the tabu list.
best_neighbor_of_any(g, curr_solution, tabu_list) ==
  CHOOSE result \in
    {best_neighbor_search(g, curr_solution, <<>>, pairs, 1, NoNeighbor) :
       pairs \in {combinations2(0, Len(curr_solution))}} : TRUE

\* lines 39-58: the search of one iteration
best_neighbor_of(g, curr_solution, tabu_list) ==
  CHOOSE result \in
    {best_neighbor_search(g, curr_solution, tabu_list, pairs, 1, NoNeighbor) :
       pairs \in {combinations2(0, Len(curr_solution))}} : TRUE

\* A variant with a slip: the newest entry is dropped, not the oldest.
adjust_tabu_list_pop_last(tabu_list, best_swap, tabu_length) ==
  IF Len(Append(tabu_list, best_swap)) > tabu_length
  THEN tabu_list
  ELSE Append(tabu_list, best_swap)

\* lines 66-70: append the swap, and drop the oldest entry of a list that
\* has become longer than tabu_length
adjust_tabu_list(tabu_list, best_swap, tabu_length) ==
  IF Len(Append(tabu_list, best_swap)) > tabu_length
  THEN Tail(Append(tabu_list, best_swap))
  ELSE Append(tabu_list, best_swap)

\* Lines 22-30.  moves is a history of the swaps applied so far; it is not a
\* variable of the source.
TSStart ==
  /\ Idle
  /\ graph' \in Graphs
  /\ \E max_iterations \in 0..MaxIterations, tabu_length \in 0..MaxTabuLength :
       ts' = [pc |-> "loop",
              max_iterations |-> max_iterations,
              tabu_length |-> tabu_length,
              iterations |-> 0,
              curr_solution |-> NodeList(graph'),
              best_global_solution |-> NodeList(graph'),
              best_global_cost |-> evaluate_solution(graph', NodeList(graph')),
              tabu_list |-> <<>>,
              costs |-> <<evaluate_solution(graph', NodeList(graph'))>>,
              moves |-> <<>>]
  /\ UNCHANGED <<ev, ls, sa, ga, session>>

\* One iteration that finds a neighbour (lines 38-82).
TSIterate ==
  /\ ts.pc = "loop"
  /\ ts.iterations < ts.max_iterations
  /\ \E found \in {best_neighbor_of(graph, ts.curr_solution, ts.tabu_list)} :
       /\ ~found.none
       /\ ts' = [ts EXCEPT
                   !.costs = Append(@, found.best_neighbor_cost),
                   !.tabu_list = adjust_tabu_list(@, found.best_swap, ts.tabu_length),
                   !.best_global_solution =
                      IF improves_global(found.best_neighbor_cost, ts.best_global_cost)
                      THEN found.best_neighbor ELSE @,
                   !.best_global_cost =
                      IF improves_global(found.best_neighbor_cost, ts.best_global_cost)
                      THEN found.best_neighbor_cost ELSE @,
                   !.curr_solution = found.best_neighbor,
                   !.iterations = @ + 1,
                   !.moves = Append(@, found.best_swap)]
  /\ UNCHANGED <<graph, ev, ls, sa, ga, session>>

\* The iteration that finds none (lines 60-61): break, return
\* best_global_solution.
TSNoMove ==
  /\ ts.pc = "loop"
  /\ ts.iterations < ts.max_iterations
  /\ best_neighbor_of(graph, ts.curr_solution, ts.tabu_list).none
  /\ ts' = [ts EXCEPT !.pc = "done"]
  /\ UNCHANGED <<graph, ev, ls, sa, ga, session>>

\* range(max_iterations) is used up: return best_global_solution.
TSExhausted ==
  /\ ts.pc = "loop"
  /\ ts.iterations >= ts.max_iterations
  /\ ts' = [ts EXCEPT !.pc = "done"]
  /\ UNCHANGED <<graph, ev, ls, sa, ga, session>>

NextTS == TSStart \/ TSIterate \/ TSNoMove \/ TSExhausted

SpecTS == Init /\ [][NextTS]_vars

\* C4: in tabu_search the cost of the best solution so far never increases
\* from one iteration to the next, it is the cost of the best solution so
\* far, and it is never above the cost of the initial tour.
C4_BestGlobalCost ==
  /\ [](ts.pc # "off" =>
          /\ ts.best_global_cost = evaluate_solution(graph, ts.best_global_solution)
          /\ ts.best_global_cost <= evaluate_solution(graph, NodeList(graph)))
  /\ [][ts.pc # "off" => ts'.best_global_cost <= ts.best_global_cost]_vars

C4_Witness ==
  /\ ts.pc # "off"
  /\ ts.iterations >= 3
  /\ ts.best_global_cost < evaluate_solution(graph, NodeList(graph))
  /\ ts.best_global_cost < evaluate_solution(graph, ts.curr_solution)

\* C5: the swap applied in an iteration is not in the tabu list that the
\* iteration starts with, and so a swap once applied is not applied again in
\* any of the next tabu_length iterations.
C5_TabuMovesNotApplied ==
  /\ [](ts.pc # "off" =>
          \A a, b \in 1..Len(ts.moves) :
            (a < b /\ b - a <= ts.tabu_length) => ts.moves[a] # ts.moves[b])
  /\ [][(ts.pc # "off" /\ Len(ts'.moves) > Len(ts.moves)) =>
          ~InList(ts'.moves[Len(ts'.moves)], ts.tabu_list)]_vars

C5_Witness ==
  /\ ts.pc # "off"
  /\ ts.tabu_length >= 2
  /\ Len(ts.tabu_list) = ts.tabu_length
  /\ \E a, b \in 1..Len(ts.moves) : a < b /\ ts.moves[a] = ts.moves[b]

\* ---------------------------------------------------- simulated_annealing

\* Temperatures and cooling rates are exact fractions <<numerator, denominator>>.
Temperatures == {<<t, 10>> : t \in 0..MaxTemperature}

CoolingRates == {<<1, 2>>, <<3, 4>>}

\* temperature > 0.1
above_floor(temperature) == 10 * temperature[1] > temperature[2]

\* A variant with a slip: the temperature is left as it is.
not_cooled(temperature, cooling_rate) == temperature

\* temperature *= cooling_rate
cooled(temperature, cooling_rate) ==
  <<temperature[1] * cooling_rate[1], temperature[2] * cooling_rate[2]>>

\* lines 127-129: the current solution with the nodes at i and j exchanged
random_neighbor(curr_solution, i, j) ==
  [curr_solution EXCEPT ![j + 1] = At(curr_solution, i),
                        ![i + 1] = At(curr_solution, j)]

\* random.random() < np.exp(-delta_cost / temperature), for a temperature
\* above 0.1: the exponential is at least 1 when delta_cost <= 0, and then
\* every draw in [0,1) is below it; it is in [0,1) otherwise, and then the
\* draw decides.
metropolis(delta_cost, draw_is_below) == delta_cost <= 0 \/ draw_is_below

\* A variant with a slip: the draw alone decides.
accepts_by_draw(delta_cost, draw_is_below) == draw_is_below

\* line 136
accepts(delta_cost, draw_is_below) ==
  delta_cost < -Eps \/ metropolis(delta_cost, draw_is_below)

\* A variant with a slip: the best solution replaced on every acceptance.
improves_best_always(new_cost, best_cost) == TRUE

\* line 142: new_cost + 0.001 < best_cost
improves_best(new_cost, best_cost) == new_cost + Eps < best_cost

\* Lines 109-117.  (The list costs, which only feeds the plot, is left out.)
SAStart ==
  /\ Idle
  /\ graph' \in Graphs
  /\ \E temperature \in Temperatures, cooling_rate \in CoolingRates :
       sa' = [pc |-> "loop",
              temperature |-> temperature,
              cooling_rate |-> cooling_rate,
              curr_solution |-> NodeList(graph'),
              curr_cost |-> evaluate_solution(graph', NodeList(graph')),
              best_solution |-> NodeList(graph'),
              best_cost |-> evaluate_solution(graph', NodeList(graph'))]
  /\ UNCHANGED <<ev, ls, ts, ga, session>>

\* One step in which the random neighbour is accepted (lines 124-148).
SAAccept ==
  /\ sa.pc = "loop"
  /\ above_floor(sa.temperature)
  /\ \E i, j \in 0..(graph.n - 1), draw_is_below \in BOOLEAN :
       /\ i # j
       /\ \E new_solution \in {random_neighbor(sa.curr_solution, i, j)} :
            \E new_cost \in {evaluate_solution(graph, new_solution)} :
              /\ accepts(new_cost - sa.curr_cost, draw_is_below)
              /\ sa' = [sa EXCEPT
                          !.curr_solution = new_solution,
                          !.curr_cost = new_cost,
                          !.best_solution =
                             IF improves_best(new_cost, sa.best_cost)
                             THEN new_solution ELSE @,
                          !.best_cost =
                             IF improves_best(new_cost, sa.best_cost)
                             THEN new_cost ELSE @,
                          !.temperature = cooled(@, sa.cooling_rate)]
  /\ UNCHANGED <<graph, ev, ls, ts, ga, session>>

\* One step in which it is not.
SAReject ==
  /\ sa.pc = "loop"
  /\ above_floor(sa.temperature)
  /\ \E i, j \in 0..(graph.n - 1), draw_is_below \in BOOLEAN :
       /\ i # j
       /\ \E new_solution \in {random_neighbor(sa.curr_solution, i, j)} :
            \E new_cost \in {evaluate_solution(graph, new_solution)} :
              /\ ~accepts(new_cost - sa.curr_cost, draw_is_below)
              /\ sa' = [sa EXCEPT !.temperature = cooled(@, sa.cooling_rate)]
  /\ UNCHANGED <<graph, ev, ls, ts, ga, session>>

\* The temperature is at or below 0.1: return best_solution.
SAExit ==
  /\ sa.pc = "loop"
  /\ ~above_floor(sa.temperature)
  /\ sa' = [sa EXCEPT !.pc = "done"]
  /\ UNCHANGED <<graph, ev, ls, ts, ga, session>>

NextSA == SAStart \/ SAAccept \/ SAReject \/ SAExit

SpecSA == Init /\ [][NextSA]_vars

\* The loop is a sequential program: it takes its next step while it can.
FairSpecSA == SpecSA /\ WF_vars(NextSA)

\* C6: whatever the random draws, the best solution of simulated_annealing
\* never costs more than the initial tour, and the best cost never increases
\* from one step to the next.
C6_BestCostNeverIncreases ==
  /\ [](sa.pc # "off" =>
          /\ evaluate_solution(graph, sa.best_solution)
                <= evaluate_solution(graph, NodeList(graph))
          /\ sa.best_cost <= evaluate_solution(graph, NodeList(graph)))
  /\ [][sa.pc # "off" => sa'.best_cost <= sa.best_cost]_vars

C6_Witness ==
  /\ sa.pc = "done"
  /\ sa.best_cost < evaluate_solution(graph, NodeList(graph))
  /\ sa.best_cost < sa.curr_cost

\* ------------------------------------------------------ genetic_algorithm

\* Mutation rates as exact fractions <<numerator, denominator>>: 0, 0.1 and 1.
MutationRates == {<<0, 1>>, <<1, 10>>}

\* random.random() < mutation_rate: no draw in [0,1) is below a rate of 0 or
\* less, every draw is below a rate of 1 or more, and the draw decides
\* otherwise.
mutates(mutation_rate, draw_is_below) ==
  \/ mutation_rate[1] >= mutation_rate[2]
  \/ mutation_rate[1] > 0 /\ draw_is_below

\* s[:k] for any k >= 0 (a slice past the end stops at the end)
Prefix(s, k) == Slice(s, 0, IF k < Len(s) THEN k ELSE Len(s))

\* list.sort( key= cost ): ascending, and stable, so tours of equal cost keep
\* their order.  The tour at position i goes to position rank(i).
SortByCost(g, population) ==
  CHOOSE sorted \in
    {[r \in 1..Len(population) |->
        population[CHOOSE i \in 1..Len(population) :
          r = 1 + Cardinality({j \in 1..Len(population) :
                    \/ cost[j] < cost[i]
                    \/ cost[j] = cost[i] /\ j < i})]] :
       cost \in {[i \in 1..Len(population) |->
                   evaluate_solution(g, population[i])]}} : TRUE

\* A variant with a slip: one-point crossover that copies the tail of the
\* second parent without skipping the genes already taken.
crossover_one_point(parent1, parent2, crossover_point) ==
  Slice(parent1, 0, crossover_point)
    \o Slice(parent2, crossover_point, Len(parent2))

\* Another: the genes after the prefix are taken in the order they have in
\* the first parent.
crossover_in_first_order(parent1, parent2, crossover_point) ==
  Slice(parent1, 0, crossover_point)
    \o SelectSeq(parent1,
         LAMBDA gene : gene \notin Elems(Slice(parent1, 0, crossover_point)))

\* line 203: the prefix of the first parent, then the genes of the second
\* parent that are not in the prefix, in the second parent's order
crossover(parent1, parent2, crossover_point) ==
  Slice(parent1, 0, crossover_point)
    \o SelectSeq(parent2,
         LAMBDA gene : gene \notin Elems(Slice(parent1, 0, crossover_point)))

\* line 208: offspring[i], offspring[j] = offspring[j], offspring[i]
mutation_swap(offspring, i, j) ==
  [offspring EXCEPT ![i + 1] = At(offspring, j), ![j + 1] = At(offspring, i)]

\* lines 211-213: if individual not in new_population: append
append_if_new(new_population, individual) ==
  IF InList(individual, new_population) THEN new_population
  ELSE Append(new_population, individual)

\* The graphs the genetic algorithm is run on: those of seed 1, whose costs
\* are asymmetric, so that on three nodes the two directions of the cycle
\* differ in cost.
GeneticGraphs == {CompleteGraph(n, 1) : n \in 2..MaxGeneticNodes}

\* Lines 179-187.  Every shuffle can give any permutation; the populations
\* enumerated are those in which the first k shuffles give one permutation
\* and the others give another.
GAStart ==
  /\ Idle
  /\ graph' \in GeneticGraphs
  /\ \E population_size \in 0..MaxPopulation, generations \in 0..MaxGenerations,
        mutation_rate \in MutationRates :
       \E first \in Perms(graph'.n), second \in Perms(graph'.n),
          k \in 0..population_size :
         ga' = [pc |-> "loop",
                population_size |-> population_size,
                generations |-> generations,
                mutation_rate |-> mutation_rate,
                generation |-> 0,
                population |->
                  SortByCost(graph', [i \in 1..population_size |->
                                        IF i <= k THEN first ELSE second]),
                new_population |-> <<>>,
                step |-> 0,
                best_costs |-> <<>>,
                worst_costs |-> <<>>]
  /\ UNCHANGED <<ev, ls, ts, sa, session>>

\* A variant with a slip: no tour is copied into the next generation.
no_elite(population, population_size) == <<>>

\* line 196: population[:population_size//10]
elite(population, population_size) ==
  Prefix(population, population_size \div 10)

\* Lines 194-196: a generation begins with the elite.
GABeginGeneration ==
  /\ ga.pc = "loop"
  /\ ga.generation < ga.generations
  /\ ga' = [ga EXCEPT !.pc = "reproduce",
                      !.new_population = elite(ga.population, ga.population_size),
                      !.step = 0]
  /\ UNCHANGED <<graph, ev, ls, ts, sa, session>>

\* Lines 206-208: what the mutation step can make of an offspring, over the
\* draw of random.random() and of the two positions.
mutation_outcomes(offspring, mutation_rate) ==
  (IF \E draw_is_below \in BOOLEAN : ~mutates(mutation_rate, draw_is_below)
   THEN {offspring} ELSE {})
  \cup
  (IF \E draw_is_below \in BOOLEAN : mutates(mutation_rate, draw_is_below)
   THEN {mutation_swap(offspring, ij[1], ij[2]) :
           ij \in {p \in (0..(Len(offspring) - 1)) \X (0..(Len(offspring) - 1)) :
                     p[1] # p[2]}}
   ELSE {})

\* Lines 202-208: the offspring that the draws of the crossover point and of
\* the mutation can give.
offsprings(parent1, parent2, mutation_rate) ==
  UNION {mutation_outcomes(offspring, mutation_rate) :
           offspring \in {crossover(parent1, parent2, crossover_point) :
                            crossover_point \in 0..(Len(parent1) - 1)}}

\* Lines 199-213: one pass of the reproduction loop.
GAReproduce ==
  /\ ga.pc = "reproduce"
  /\ ga.step < ga.population_size \div 2
  /\ \E pool \in {Prefix(ga.population, ga.population_size \div 2)} :
       \E a, b \in 1..Len(pool) :
         /\ a # b
         /\ \E offspring \in offsprings(pool[a], pool[b], ga.mutation_rate) :
              ga' = [ga EXCEPT
                      !.new_population =
                         append_if_new(
                           append_if_new(append_if_new(@, pool[a]), pool[b]),
                           offspring),
                      !.step = @ + 1]
  /\ UNCHANGED <<graph, ev, ls, ts, sa, session>>

\* Line 201 with fewer than two tours to sample from: random.sample raises
\* ValueError.
GASampleError ==
  /\ ga.pc = "reproduce"
  /\ ga.step < ga.population_size \div 2
  /\ Len(Prefix(ga.population, ga.population_size \div 2)) < 2
  /\ ga' = [ga EXCEPT !.pc = "ValueError"]
  /\ UNCHANGED <<graph, ev, ls, ts, sa, session>>

\* Lines 216-222: sort, truncate, record the best and the worst cost.
GASelect ==
  /\ ga.pc = "reproduce"
  /\ ga.step >= ga.population_size \div 2
  /\ \E population \in
         {Prefix(SortByCost(graph, ga.new_population), ga.population_size)} :
       /\ population # <<>>
       /\ ga' = [ga EXCEPT
                   !.pc = "loop",
                   !.population = population,
                   !.best_costs =
                      Append(@, evaluate_solution(graph, At(population, 0))),
                   !.worst_costs =
                      Append(@, evaluate_solution(graph,
                                   At(population, Len(population) - 1))),
                   !.generation = @ + 1]
  /\ UNCHANGED <<graph, ev, ls, ts, sa, session>>

\* Line 219 with an empty population: population[0] raises IndexError.
GASelectError ==
  /\ ga.pc = "reproduce"
  /\ ga.step >= ga.population_size \div 2
  /\ Prefix(SortByCost(graph, ga.new_population), ga.population_size) = <<>>
  /\ ga' = [ga EXCEPT !.pc = "IndexError", !.population = <<>>]
  /\ UNCHANGED <<graph, ev, ls, ts, sa, session>>

\* Line 233: return population[0].
GAReturn ==
  /\ ga.pc = "loop"
  /\ ga.generation >= ga.generations
  /\ ga' = [ga EXCEPT !.pc = IF ga.population = <<>> THEN "IndexError" ELSE "done"]
  /\ UNCHANGED <<graph, ev, ls, ts, sa, session>>

NextGA ==
  \/ GAStart \/ GABeginGeneration \/ GAReproduce \/ GASampleError
  \/ GASelect \/ GASelectError \/ GAReturn

SpecGA == Init /\ [][NextGA]_vars

\* The generations and mutation rates such a population is run with: one
\* generation with any of the rates, more generations without mutation.
ElitePlans ==
  {plan \in (1..MaxGenerations) \X MutationRates :
     plan[1] = 1 \/ plan[2][1] = 0}

\* Lines 179-187 for a population of ElitePopulation tours, the smallest
\* with a tour in population[:population_size//10].
GAStartElite ==
  /\ Idle
  /\ graph' \in GeneticGraphs
  /\ \E plan \in ElitePlans :
       \E first \in Perms(graph'.n), second \in Perms(graph'.n),
          k \in 0..ElitePopulation :
         ga' = [pc |-> "loop",
                population_size |-> ElitePopulation,
                generations |-> plan[1],
                mutation_rate |-> plan[2],
                generation |-> 0,
                population |->
                  SortByCost(graph', [i \in 1..ElitePopulation |->
                                        IF i <= k THEN first ELSE second]),
                new_population |-> <<>>,
                step |-> 0,
                best_costs |-> <<>>,
                worst_costs |-> <<>>]
  /\ UNCHANGED <<ev, ls, ts, sa, session>>

\* genetic_algorithm on such a population.  (Its new_population is never
\* empty, so line 219 does not fail.)
NextGAElite ==
  \/ GAStartElite \/ GABeginGeneration \/ GAReproduce \/ GASampleError
  \/ GASelect \/ GAReturn

SpecGAElite == Init /\ [][NextGAElite]_vars

\* Lines 201-203 on their own: two tours of the graph as parents and a
\* crossover point of random.randint( 0, len(parent1)-1 ).
CrossoverStart ==
  /\ Idle
  /\ graph' \in Graphs
  /\ \E parent1 \in Perms(graph'.n), parent2 \in Perms(graph'.n),
        crossover_point \in 0..(graph'.n - 1) :
       ga' = [pc |-> "crossover",
              parent1 |-> parent1,
              parent2 |-> parent2,
              crossover_point |-> crossover_point]
  /\ UNCHANGED <<ev, ls, ts, sa, session>>

\* Line 203: the offspring is a new list; the parents are only read.
CrossoverApply ==
  /\ ga.pc = "crossover"
  /\ ga' = [pc |-> "crossed",
            parent1 |-> ga.parent1,
            parent2 |-> ga.parent2,
            crossover_point |-> ga.crossover_point,
            offspring |-> crossover(ga.parent1, ga.parent2, ga.crossover_point)]
  /\ UNCHANGED <<graph, ev, ls, ts, sa, session>>

NextCrossover == CrossoverStart \/ CrossoverApply

SpecCrossover == Init /\ [][NextCrossover]_vars

\* C7: the best cost of the population after a generation is at most the
\* best cost of the population after the generation before it, whatever the
\* population size and the random draws.
C7_BestCostNonIncreasing ==
  ga.pc # "off" =>
    \A g \in 1..(Len(ga.best_costs) - 1) :
      ga.best_costs[g + 1] <= ga.best_costs[g]

\* -------------------------------------------- the generator of module random

\* The procedures draw from the one generator of the module random
\* (tsp_ls.py line 2, tsp_lsplus.py line 4): no generator and no seed is a
\* parameter of theirs.  The generator is a deterministic machine; it is
\* modelled by a linear congruential one on GeneratorModulus states.

\* random.seed( seed )
random_seed(seed) == seed % GeneratorModulus

\* the state after one draw
advance(state) == (5 * state + 3) % GeneratorModulus

\* the state after k draws
RECURSIVE advanced(_, _)
advanced(state, k) == IF k = 0 THEN state ELSE advanced(advance(state), k - 1)

\* a draw of an integer below k
randbelow(state, k) == state % k

\* random.shuffle( x ), from position i down to 1: x[i] is exchanged with
\* x[j] for a drawn j <= i.  The result is the list and the generator state.
RECURSIVE shuffle(_, _, _)
shuffle(x, i, state) ==
  IF i < 1 THEN [list |-> x, state |-> state]
  ELSE shuffle([x EXCEPT ![i + 1] = At(x, randbelow(state, i + 1)),
                         ![randbelow(state, i + 1) + 1] = At(x, i)],
               i - 1, advance(state))

\* Lines 301-309 of local_search as a whole: the trace and the tour
\* returned, from the shuffled tour on.
RECURSIVE improve_until_no_improvement(_, _, _, _)
improve_until_no_improvement(op, g, solution, solutions) ==
  CHOOSE result \in
    {IF r.improved /\ Len(solutions) < MaxTrace
     THEN improve_until_no_improvement(op, g, r.best_solution,
                                       Append(solutions, r.best_solution))
     ELSE [solution |-> r.best_solution, solutions |-> solutions] :
       r \in {improve(op, g, solution)}} : TRUE

\* random_euclidean_graph( nnodes, seed ): the generator is seeded (line 25)
\* and two coordinates are drawn for every node (line 33).
SessionStart ==
  /\ Idle
  /\ \E n \in 2..MaxNodes, seed \in 0..MaxSeed, op \in Operators :
       /\ graph' = CompleteGraph(n, seed)
       /\ session' = [pc |-> "ready", seed |-> seed, op |-> op,
                      state |-> advanced(random_seed(seed), 2 * n),
                      other_draws |-> 0, runs |-> <<>>]
  /\ UNCHANGED <<ev, ls, ts, sa, ga>>

\* A call of local_search( graph ): the shuffle of lines 294-295 draws from
\* the generator as it stands, the rest follows from the shuffled tour.
SessionLocalSearch ==
  /\ session.pc = "ready"
  /\ Len(session.runs) < MaxRuns
  /\ \E shuffled \in {shuffle(NodeList(graph), graph.n - 1, session.state)} :
       session' = [session EXCEPT
                     !.state = shuffled.state,
                     !.runs = Append(@,
                       improve_until_no_improvement(session.op, graph,
                         shuffled.list, <<shuffled.list>>))]
  /\ UNCHANGED <<graph, ev, ls, ts, sa, ga>>

\* Other code of the session draws from the generator: a random.random() of
\* simulated_annealing or genetic_algorithm, say.
SessionOtherDraw ==
  /\ session.pc = "ready"
  /\ session.other_draws < MaxOtherDraws
  /\ Len(session.runs) < MaxRuns
  /\ session' = [session EXCEPT !.state = advance(@), !.other_draws = @ + 1]
  /\ UNCHANGED <<graph, ev, ls, ts, sa, ga>>

NextSession == SessionStart \/ SessionLocalSearch \/ SessionOtherDraw

SpecSession == Init /\ [][NextSession]_vars

\* C19: every random value a procedure consumes comes from a seeded
\* generator passed into the run, so two runs with the same cost table,
\* the same parameters and the same seed return the same tour and the same
\* trace, whatever ran before them.
C19_Reproducible ==
  session.pc # "off" =>
    \A a, b \in 1..Len(session.runs) : session.runs[a] = session.runs[b]

\* ------------------------------------------------------------ the program

Next == NextEV \/ NextLS \/ NextTS \/ NextSA \/ NextGA \/ NextSession

Spec == Init /\ [][Next]_vars

\* The candidates the operator of local_search enumerates, as a list.
candidates(op, solution) ==
  CASE op = "relocate" -> relocation_candidates(solution)
    [] op = "swap" -> swap_candidates(solution)
    [] op = "2-opt" -> two_opt_candidates(solution)

\* The tours local_search holds or its operator produces in this state.
LSTours ==
  IF ls.pc = "off" THEN {}
  ELSE {ls.solution} \cup Elems(ls.solutions)
         \cup Elems(candidates(ls.op, ls.solution))
         \cup {improve(ls.op, graph, ls.solution).best_solution}

\* Those of tabu_search: the current and the best tour, and every neighbour
\* the next iteration builds.
TSTours ==
  IF ts.pc = "off" THEN {}
  ELSE {ts.curr_solution, ts.best_global_solution}
         \cup {neighbor_swap(ts.curr_solution, i, j) :
                 i \in 0..(graph.n - 1), j \in 0..(graph.n - 1)}

\* Those of simulated_annealing: the current and the best tour, and every
\* neighbour the next step can draw.
SATours ==
  IF sa.pc = "off" THEN {}
  ELSE {sa.curr_solution, sa.best_solution}
         \cup {random_neighbor(sa.curr_solution, i, j) :
                 i \in 0..(graph.n - 1), j \in 0..(graph.n - 1)}

\* Those of genetic_algorithm: the members of the population and of the next
\* generation, and every offspring the next reproduction pass can build,
\* before the mutation step and after it.
GATours ==
  IF ga.pc = "off" THEN {}
  ELSE Elems(ga.population) \cup Elems(ga.new_population)
         \cup UNION {
                {crossover(pool[a], pool[b], crossover_point) :
                   crossover_point \in 0..(graph.n - 1)}
                \cup offsprings(pool[a], pool[b], ga.mutation_rate) :
                  pool \in {Prefix(ga.population, ga.population_size \div 2)},
                  a \in 1..Len(Prefix(ga.population, ga.population_size \div 2)),
                  b \in 1..Len(Prefix(ga.population, ga.population_size \div 2))}

\* C10: every tour a controller holds or an operator produces, the candidates
\* and results of the operators, the trace of local_search, the current and
\* best tours of tabu_search and simulated_annealing, the members of the
\* populations of genetic_algorithm and its offspring before and after the
\* mutation, holds every node of the graph exactly once.
C10_ToursArePermutations ==
  \A tour \in LSTours \cup TSTours \cup SATours \cup GATours :
    IsTour(tour, graph.n)

\* A pass of the reproduction loop has added to the next generation a tour
\* that is not in the population: an offspring.
C10_Witness ==
  /\ ga.pc = "reproduce"
  /\ ga.step >= 1
  /\ graph.n >= 3
  /\ \E k \in 1..Len(ga.new_population) :
       ~InList(ga.new_population[k], ga.population)
  /\ C10_ToursArePermutations

\* ------------------------------------------------- claims on the operators

\* C11: for each of the three operators and every input tour, every candidate
\* the operator enumerates and the tour it returns have at position 0 the
\* element the input tour has there.
C11_PositionZeroKept ==
  ls.pc = "improving" =>
    /\ \A k \in 1..Len(candidates(ls.op, ls.solution)) :
         At(candidates(ls.op, ls.solution)[k], 0) = At(ls.solution, 0)
    /\ At(improve(ls.op, graph, ls.solution).best_solution, 0)
         = At(ls.solution, 0)

\* C12: a call of the evaluation on a list whose length is not the number of
\* nodes, or whose elements are not exactly the nodes, fails with an error
\* and returns no cost; so a call that returned a cost was given a list that
\* fits the node set.
C12_ShapeMismatchFails ==
  ev.pc = "returned" =>
    /\ Len(ev.solution) = graph.n
    /\ Elems(ev.solution) = 0..(graph.n - 1)

\* ----------------------------------------------- claims on the parameters

\* C13: a procedure called with max_iterations, tabu_length, population_size,
\* generations or temperature not above zero, or with a mutation_rate
\* outside [0,1], runs no iteration and returns no tour: it never gets into
\* its loop body and never ends normally.  (A temperature that is not above
\* zero is never cooled, so it is still the one of the call.)
C13_InvalidParameterFails ==
  /\ (ts.pc # "off" /\ (ts.max_iterations <= 0 \/ ts.tabu_length <= 0)) =>
        (ts.pc # "done" /\ ts.iterations = 0)
  /\ (sa.pc # "off" /\ sa.temperature[1] <= 0) => sa.pc # "done"
  /\ (ga.pc # "off" /\ (\/ ga.population_size <= 0
                         \/ ga.generations <= 0
                         \/ ga.mutation_rate[1] < 0
                         \/ ga.mutation_rate[1] > ga.mutation_rate[2])) =>
        (ga.pc \notin {"done", "reproduce"} /\ ga.generation = 0)

\* ------------------------------------------------- claims on tabu_search

\* Every swap of two positions of the current tour is in the tabu list.
AllSwapsTabu ==
  \A i, j \in 0..(graph.n - 1) : i < j => InList(<<i, j>>, ts.tabu_list)

\* C14: an iteration of tabu_search that finds every swap in the tabu list
\* ends the search without an error; it leaves the current tour, the best
\* tour and its cost, and the tabu list as they were, and the search returns
\* the best tour.
C14_EmptyNeighborhoodStops ==
  [][(ts.pc = "loop" /\ ts.iterations < ts.max_iterations /\ AllSwapsTabu) =>
       /\ ts'.pc = "done"
       /\ ts'.curr_solution = ts.curr_solution
       /\ ts'.best_global_solution = ts.best_global_solution
       /\ ts'.best_global_cost = ts.best_global_cost
       /\ ts'.tabu_list = ts.tabu_list
       /\ ts'.iterations = ts.iterations]_vars

\* The search has stopped before max_iterations, on three or more nodes,
\* with every swap in the tabu list.
C14_Witness ==
  /\ ts.pc = "done"
  /\ ts.iterations < ts.max_iterations
  /\ graph.n >= 3
  /\ AllSwapsTabu

\* ------------------------------------------------ claims on local_search

\* C15: the initial tour of local_search has node 0 at position 0, and so
\* has every tour of its trace.
C15_NodeZeroFirst ==
  ls.pc # "off" =>
    \A k \in 1..Len(ls.solutions) : At(ls.solutions[k], 0) = 0

\* C16: on the unit square, local_search with the 2-opt operator, started
\* from any permutation of the four nodes, ends, and the tour it ends with
\* costs 4.0.
C16_UnitSquare ==
  /\ []((graph = UnitSquare /\ ls.pc = "terminal" /\ ls.op = "2-opt") =>
          evaluate_solution(graph, ls.solution) = 4000)
  /\ ((graph = UnitSquare /\ ls.pc = "improving" /\ ls.op = "2-opt")
        ~> (ls.pc = "terminal"))

\* The search has ended on the unit square after an improvement.
C16_Witness ==
  /\ graph = UnitSquare
  /\ ls.pc = "terminal"
  /\ ls.op = "2-opt"
  /\ Len(ls.solutions) >= 2
  /\ evaluate_solution(graph, ls.solutions[1]) > 4000
  /\ evaluate_solution(graph, ls.solution) = 4000

\* No operator reports an improvement on the current tour, and the trace
\* holds the initial tour only.
NoImprovingIteration ==
  /\ Len(ls.solutions) = 1
  /\ \A op \in Operators : ~improve(op, graph, ls.solution).improved

\* C17, as stated: on three nodes, for every cost table and every
\* permutation, each of the three operators reports no improvement, and
\* local_search ends with a trace that holds the initial tour only.
C17_ThreeNodes ==
  (ls.pc # "off" /\ graph.n = 3) => NoImprovingIteration

\* C17, amended: the same for every symmetric cost table on three nodes.
C17_ThreeNodesSymmetric ==
  (ls.pc # "off" /\ graph.n = 3 /\ ~Asymmetric(graph)) => NoImprovingIteration

\* The search has ended on three nodes with a symmetric table whose edges
\* do not all cost the same.
C17_Witness ==
  /\ ls.pc = "terminal"
  /\ graph.n = 3
  /\ ~Asymmetric(graph)
  /\ \E e, f \in DOMAIN graph.cost : graph.cost[e] # graph.cost[f]
  /\ NoImprovingIteration

\* The tours one swap of two positions away from the current tour.
SwapNeighbours(solution) ==
  {neighbor_swap(solution, i, j) :
     <<i, j>> \in {p \in (0..(Len(solution) - 1)) \X (0..(Len(solution) - 1)) :
                    p[1] < p[2]}}

\* C18: with tabu_length = 0 the tabu list is empty at the start of every
\* iteration, no swap is skipped, and the iteration moves to a swap
\* neighbour of the current tour of the lowest cost, as a search without a
\* tabu list would.
C18_TabuLengthZero ==
  (ts.pc = "loop" /\ ts.tabu_length = 0 /\ ts.iterations < ts.max_iterations) =>
    /\ ts.tabu_list = <<>>
    /\ \E found \in {best_neighbor_of(graph, ts.curr_solution, ts.tabu_list)} :
         /\ ~found.none
         /\ found.best_neighbor \in SwapNeighbours(ts.curr_solution)
         /\ \A s \in SwapNeighbours(ts.curr_solution) :
              found.best_neighbor_cost <= evaluate_solution(graph, s)

\* ------------------------------------------- claims on genetic_algorithm

\* C20: after the initialization and after the selection of every
\* generation the population holds exactly population_size tours, in
\* ascending order of cost.
C20_PopulationSizeAndOrder ==
  ga.pc = "loop" =>
    /\ Len(ga.population) = ga.population_size
    /\ \A k \in 1..(Len(ga.population) - 1) :
         evaluate_solution(graph, ga.population[k])
           <= evaluate_solution(graph, ga.population[k + 1])

\* C21: when the operator of local_search reports an improvement, the tour
\* it returns is one of the enumerated candidates, no enumerated candidate
\* costs less than the returned cost, and the returned cost is the cost of
\* the returned tour.
C21_BestImprovement ==
  ls.pc = "improving" =>
    \A r \in {improve(ls.op, graph, ls.solution)} :
      r.improved =>
        \A cands \in {candidates(ls.op, ls.solution)} :
          /\ \E k \in 1..Len(cands) : cands[k] = r.best_solution
          /\ \A k \in 1..Len(cands) :
               evaluate_solution(graph, cands[k]) >= r.best_cost
          /\ r.best_cost = evaluate_solution(graph, r.best_solution)

\* C22: the operator reports an improvement if and only if some enumerated
\* candidate costs less than the input tour by more than the threshold; when
\* it reports none, it returns the input tour and the cost of the input tour.
C22_EpsilonGating ==
  ls.pc = "improving" =>
    \A r \in {improve(ls.op, graph, ls.solution)} :
      \A cands \in {candidates(ls.op, ls.solution)} :
        /\ r.improved <=>
             \E k \in 1..Len(cands) :
               evaluate_solution(graph, cands[k]) + Eps
                 < evaluate_solution(graph, ls.solution)
        /\ ~r.improved =>
             /\ r.best_solution = ls.solution
             /\ r.best_cost = evaluate_solution(graph, ls.solution)

\* After an improving pass the operator meets a tour with a cheaper candidate
\* that is within the threshold, and reports no improvement.
C22_Witness ==
  /\ ls.pc = "improving"
  /\ Len(ls.solutions) >= 2
  /\ ~improve(ls.op, graph, ls.solution).improved
  /\ \E k \in 1..Len(candidates(ls.op, ls.solution)) :
       evaluate_solution(graph, candidates(ls.op, ls.solution)[k])
         < evaluate_solution(graph, ls.solution)

\* C23: tabu_search applies only swaps of two positions from 1 on, so the
\* node at position 0 of the current tour and of the best tour so far is, in
\* every iteration, the node at position 0 of the initial tour.
C23_TabuPositionZeroKept ==
  ts.pc # "off" =>
    /\ \A k \in 1..Len(ts.moves) : ts.moves[k][1] >= 1 /\ ts.moves[k][2] >= 1
    /\ At(ts.curr_solution, 0) = At(NodeList(graph), 0)
    /\ At(ts.best_global_solution, 0) = At(NodeList(graph), 0)

\* The pairs of positions that are not in the tabu list.
NonTabuPairs(solution, tabu_list) ==
  {p \in (0..(Len(solution) - 1)) \X (0..(Len(solution) - 1)) :
     p[1] < p[2] /\ ~InList(p, tabu_list)}

\* C24: in every iteration of tabu_search that has a swap outside the tabu
\* list, the new current tour is the result of such a swap, no swap outside
\* the tabu list gives a tour of lower cost, and the tour becomes the current
\* tour whether or not it costs more than the old one.
C24_TabuSelectsLowestCost ==
  [][(ts.pc = "loop" /\ ts.iterations < ts.max_iterations
        /\ NonTabuPairs(ts.curr_solution, ts.tabu_list) # {}) =>
       /\ ts'.iterations = ts.iterations + 1
       /\ \E p \in NonTabuPairs(ts.curr_solution, ts.tabu_list) :
            ts'.curr_solution = neighbor_swap(ts.curr_solution, p[1], p[2])
       /\ \A p \in NonTabuPairs(ts.curr_solution, ts.tabu_list) :
            evaluate_solution(graph, ts'.curr_solution)
              <= evaluate_solution(graph,
                   neighbor_swap(ts.curr_solution, p[1], p[2]))]_vars

\* The last k entries of a list.
LastMoves(moves, k) ==
  [m \in 1..k |-> moves[Len(moves) - k + m]]

\* C25: after t iterations the tabu list holds the last min(t, tabu_length)
\* swaps applied, the oldest first; it is never longer than tabu_length when
\* an iteration starts; and an iteration that starts with a full list drops
\* its oldest entry and keeps the others in their order before the new one.
C25_TabuListIsFifo ==
  /\ [](ts.pc # "off" =>
          /\ Len(ts.moves) = ts.iterations
          /\ Len(ts.tabu_list) <= ts.tabu_length
          /\ ts.tabu_list =
               LastMoves(ts.moves,
                         IF ts.iterations < ts.tabu_length
                         THEN ts.iterations ELSE ts.tabu_length))
  /\ [][(ts.pc # "off" /\ ts'.iterations > ts.iterations
           /\ ts.tabu_length > 0 /\ Len(ts.tabu_list) = ts.tabu_length) =>
          ts'.tabu_list
            = Append(Tail(ts.tabu_list), ts'.moves[Len(ts'.moves)])]_vars

\* A list of two or more entries has been full and has dropped an entry.
C25_Witness ==
  /\ ts.pc # "off"
  /\ ts.tabu_length >= 2
  /\ ts.iterations > ts.tabu_length
  /\ Len(ts.tabu_list) = ts.tabu_length

\* ---------------------------------------- claims on simulated_annealing

\* C26: every step of simulated_annealing, accepting or not, multiplies the
\* temperature by cooling_rate; the loop is left exactly when the temperature
\* is at or below 0.1; and for every initial temperature and every cooling
\* rate in (0,1) the loop is left after finitely many steps.
C26_AnnealingTerminates ==
  /\ [][(sa.pc = "loop" /\ sa'.pc = "loop") =>
          /\ 10 * sa.temperature[1] > sa.temperature[2]
          /\ sa'.temperature[1] * sa.temperature[2] * sa.cooling_rate[2]
               = sa.temperature[1] * sa.cooling_rate[1] * sa'.temperature[2]]_vars
  /\ [][(sa.pc = "loop" /\ sa'.pc = "done") =>
          /\ 10 * sa.temperature[1] <= sa.temperature[2]
          /\ sa'.temperature = sa.temperature]_vars
  /\ (sa.pc = "loop") ~> (sa.pc = "done")

\* The loop has been left after three or more steps, with a current tour
\* that is not the initial one.
C26_Witness ==
  /\ sa.pc = "done"
  /\ sa.temperature[2] >= 640
  /\ sa.curr_solution # NodeList(graph)

\* The random neighbours of the current tour with their costs.
RandomNeighbors ==
  {[new_solution |-> random_neighbor(sa.curr_solution, p[1], p[2]),
    new_cost |-> evaluate_solution(graph,
                   random_neighbor(sa.curr_solution, p[1], p[2]))] :
     p \in {q \in (0..(graph.n - 1)) \X (0..(graph.n - 1)) : q[1] # q[2]}}

\* C27: a neighbour that costs less than the current tour by more than the
\* threshold is accepted whatever the draw; a step that accepts makes the
\* neighbour and its cost the current ones, and replaces the best tour and
\* cost exactly when the neighbour costs less than the best by more than the
\* threshold; a step that rejects leaves current and best tour and cost alone.
\* (A swap of two positions changes the tour, so a step has accepted exactly
\* when the current tour has changed.)
C27_AnnealingAcceptance ==
  /\ []((sa.pc = "loop" /\ 10 * sa.temperature[1] > sa.temperature[2]) =>
          \A c \in RandomNeighbors, draw_is_below \in BOOLEAN :
            c.new_cost - sa.curr_cost < -Eps =>
              accepts(c.new_cost - sa.curr_cost, draw_is_below))
  /\ [][(sa.pc = "loop" /\ sa'.pc = "loop") =>
          IF sa'.curr_solution # sa.curr_solution
          THEN /\ \E c \in RandomNeighbors :
                    /\ sa'.curr_solution = c.new_solution
                    /\ sa'.curr_cost = c.new_cost
               /\ IF sa'.curr_cost + Eps < sa.best_cost
                  THEN /\ sa'.best_solution = sa'.curr_solution
                       /\ sa'.best_cost = sa'.curr_cost
                  ELSE /\ sa'.best_solution = sa.best_solution
                       /\ sa'.best_cost = sa.best_cost
          ELSE /\ sa'.curr_cost = sa.curr_cost
               /\ sa'.best_solution = sa.best_solution
               /\ sa'.best_cost = sa.best_cost]_vars

\* The best tour has been replaced, a worse neighbour has been accepted
\* after it, and a neighbour that is cheaper by more than the threshold is
\* to be drawn.
C27_Witness ==
  /\ sa.pc = "loop"
  /\ 10 * sa.temperature[1] > sa.temperature[2]
  /\ sa.best_cost < evaluate_solution(graph, NodeList(graph))
  /\ sa.best_cost < sa.curr_cost
  /\ \E c \in RandomNeighbors : c.new_cost - sa.curr_cost < -Eps

\* C28: each of the first population_size // 10 tours of the population a
\* generation starts with is a member of the population after the selection
\* of that generation, whatever the draws.
C28_ElitismKeepsTheBest ==
  [][(ga.pc = "reproduce" /\ ga'.pc = "loop") =>
       \A k \in 1..(ga.population_size \div 10) :
         k <= Len(ga.population) => InList(ga.population[k], ga'.population)]_vars

\* The second generation has bred a tour that is cheaper than the elite
\* tour it started with, and the elite tour is a member of the population
\* behind it.
C28_Witness ==
  /\ ga.pc = "loop"
  /\ ga.population_size \div 10 >= 1
  /\ Len(ga.best_costs) >= 2
  /\ ga.best_costs[2] < ga.best_costs[1]
  /\ \E k \in 2..Len(ga.population) :
       evaluate_solution(graph, ga.population[k]) = ga.best_costs[1]

\* the position of a gene in a tour
PositionIn(tour, gene) == CHOOSE m \in 1..Len(tour) : tour[m] = gene

\* C29: for two tours as parents and a crossover point k in [0, n), the
\* offspring of the crossover is a permutation of the nodes; its first k
\* genes are the first k genes of the first parent; its other genes are the
\* nodes that are not among these, in the order they have in the second
\* parent; and the parents are as they were.
C29_OrderCrossover ==
  /\ [](ga.pc = "crossed" =>
          /\ IsTour(ga.offspring, graph.n)
          /\ \A m \in 1..ga.crossover_point : ga.offspring[m] = ga.parent1[m]
          /\ {ga.offspring[m] : m \in (ga.crossover_point + 1)..graph.n}
               = (0..(graph.n - 1))
                   \ {ga.parent1[m] : m \in 1..ga.crossover_point}
          /\ \A x, y \in (ga.crossover_point + 1)..graph.n :
               x < y => PositionIn(ga.parent2, ga.offspring[x])
                          < PositionIn(ga.parent2, ga.offspring[y]))
  /\ [][(ga.pc = "crossover" /\ ga'.pc = "crossed") =>
          /\ ga'.parent1 = ga.parent1
          /\ ga'.parent2 = ga.parent2
          /\ ga'.crossover_point = ga.crossover_point]_vars

\* A crossover whose offspring is neither parent: genes of the second parent
\* have been skipped.
C29_Witness ==
  /\ ga.pc = "crossed"
  /\ ga.crossover_point >= 2
  /\ ga.offspring # ga.parent1
  /\ ga.offspring # ga.parent2
  /\ Slice(ga.offspring, ga.crossover_point, graph.n)
       # Slice(ga.parent2, ga.crossover_point, graph.n)

\* C30: with a population_size of 4 or more, the tours that the parents are
\* drawn from, the first population_size // 2 of the population, are two or
\* more in every pass of the reproduction of every generation, so that
\* random.sample never fails and every generation is completed.
C30_ParentSamplingNeverFails ==
  (ga.pc # "off" /\ ga.population_size >= 4) =>
    /\ ga.pc # "ValueError"
    /\ ga.pc = "reproduce" =>
         Len(Prefix(ga.population, ga.population_size \div 2)) >= 2
====
